---------------------------- MODULE Spec2Model ----------------------------
(***************************************************************************)
(* Model of rnn_scripts/initializers.py: the three matrix initializers     *)
(* initialize_w_rec, initialize_w_inp and initialize_loadings operating on *)
(* one shared configuration dictionary `params`.                           *)
(*                                                                         *)
(* Numbers.  Floating-point values are modelled exactly as rationals       *)
(* [n |-> numerator, d |-> denominator] in lowest terms with d > 0,        *)
(* extended with the three IEEE special values the numpy array operations  *)
(* of the source produce instead of raising: +inf = [n |-> 1, d |-> 0],    *)
(* -inf = [n |-> -1, d |-> 0] and nan = [n |-> 0, d |-> 0].  Rounding      *)
(* error is not modelled.                                                  *)
(*                                                                         *)
(* The correction factor b of line 70 involves pi and a square root and is *)
(* kept symbolic: the weight matrix of the program is  b^bpow * w_rec,     *)
(* where b > 0 whenever line 70 evaluates without error.                   *)
(*                                                                         *)
(* Matrices are records [nr, nc, v] with v[i][j] for i \in 1..nr and       *)
(* j \in 1..nc; At(m, i, j) reads them with the source's 0-based indices.  *)
(***************************************************************************)
EXTENDS Integers, Sequences, FiniteSets, TLC

(***************************************************************************)
(* Bounds of the model.                                                    *)
(***************************************************************************)
MaxRank == 2
MaxNInp == 1
MaxNOut == 1

\* Sizes of the recurrent network for which the eigenvalues are computed
\* exactly (closed forms for 1x1 and 2x2 matrices).
NRecs == {1, 2}

(***************************************************************************)
(* Extended rational arithmetic (numpy float semantics without rounding).  *)
(***************************************************************************)
AbsI(k) == IF k < 0 THEN -k ELSE k

SignI(k) == IF k < 0 THEN -1 ELSE IF k > 0 THEN 1 ELSE 0

RECURSIVE GCD(_, _)
GCD(a, b) == IF b = 0 THEN a ELSE GCD(b, a % b)

Norm(n, d) ==
    IF d = 0 THEN [n |-> SignI(n), d |-> 0]
    ELSE LET g == GCD(AbsI(n), AbsI(d))
         IN  [n |-> (SignI(d) * n) \div g, d |-> AbsI(d) \div g]

R(n, d) == Norm(n, d)

Zero == [n |-> 0, d |-> 1]
One == [n |-> 1, d |-> 1]
NaN == [n |-> 0, d |-> 0]
Inf == [n |-> 1, d |-> 0]

IsFinite(x) == x.d # 0
IsNaN(x) == x.d = 0 /\ x.n = 0

RNeg(x) == [n |-> -x.n, d |-> x.d]

RAbs(x) == [n |-> AbsI(x.n), d |-> x.d]

RMul(x, y) == Norm(x.n * y.n, x.d * y.d)

\* 1/y: 1/0 = inf, 1/inf = 0, 1/nan = nan
RInv(y) ==
    IF y.d = 0 THEN (IF y.n = 0 THEN NaN ELSE Zero)
    ELSE IF y.n = 0 THEN Inf
    ELSE Norm(y.d, y.n)

\* x / y: x/0 = +-inf for x # 0, 0/0 = nan, x/inf = 0 (a warning, no error)
RDiv(x, y) == IF IsNaN(y) THEN NaN ELSE RMul(x, RInv(y))

RAdd(x, y) ==
    IF IsNaN(x) \/ IsNaN(y) THEN NaN
    ELSE IF x.d = 0 /\ y.d = 0 THEN (IF x.n = y.n THEN x ELSE NaN)
    ELSE IF x.d = 0 THEN x
    ELSE IF y.d = 0 THEN y
    ELSE Norm(x.n * y.d + y.n * x.d, x.d * y.d)

RSub(x, y) == RAdd(x, RNeg(y))

\* x < y on finite values
RLess(x, y) == x.n * y.d < y.n * x.d

\* x >= 0 as a comparison of floats: false for nan
RNonNeg(x) == ~IsNaN(x) /\ x.n >= 0

IsSquareI(k) == k >= 0 /\ \E r \in 0..k : r * r = k

SqrtI(k) == CHOOSE r \in 0..k : r * r = k

\* the square root is a rational
IsSquare(x) == IsFinite(x) /\ IsSquareI(x.n) /\ IsSquareI(x.d)

\* np.sqrt on a value whose root is rational
RSqrt(x) ==
    IF IsNaN(x) \/ x.n < 0 THEN NaN
    ELSE IF x.d = 0 THEN Inf
    ELSE Norm(SqrtI(x.n), SqrtI(x.d))

\* int(x) of Python: truncation towards zero
IntTrunc(x) == SignI(x.n) * (AbsI(x.n) \div x.d)

RECURSIVE RSum(_)
RSum(s) == IF Len(s) = 0 THEN Zero ELSE RAdd(Head(s), RSum(Tail(s)))

(***************************************************************************)
(* Matrices.                                                               *)
(***************************************************************************)
\* an array as a stored tuple of values (the same array, evaluated once)
Stored(s) == s \o <<>>

\* entry with 0-based indices, as in the source
At(m, i, j) == m.v[i + 1][j + 1]

Rows(m) == 0..(m.nr - 1)
Cols(m) == 0..(m.nc - 1)

NoMat == [nr |-> 0, nc |-> 0, v |-> <<>>]

\* np.zeros((nr, nc))
Zeros(nr, nc) == [nr |-> nr, nc |-> nc, v |-> [i \in 1..nr |-> [j \in 1..nc |-> Zero]]]

\* np.eye(n)
Eye(n) ==
    [nr |-> n, nc |-> n,
     v |-> [i \in 1..n |-> [j \in 1..n |-> IF i = j THEN One ELSE Zero]]]

MatFinite(m) == \A i \in Rows(m) : \A j \in Cols(m) : IsFinite(At(m, i, j))

\* np.abs(m)
MatAbs(m) == [m EXCEPT !.v = [i \in 1..m.nr |-> [j \in 1..m.nc |-> RAbs(m.v[i][j])]]]

\* m * c for a scalar c
MatScale(m, c) ==
    [m EXCEPT !.v = [i \in 1..m.nr |-> [j \in 1..m.nc |-> RMul(m.v[i][j], c)]]]

\* m / c for a scalar c
MatDivScalar(m, c) ==
    [m EXCEPT !.v = [i \in 1..m.nr |-> [j \in 1..m.nc |-> RDiv(m.v[i][j], c)]]]

\* m.T
Transpose(m) ==
    [nr |-> m.nc, nc |-> m.nr, v |-> [i \in 1..m.nc |-> [j \in 1..m.nr |-> m.v[j][i]]]]

\* a.dot(b), a @ b
MatMul(a, b) ==
    [nr |-> a.nr, nc |-> b.nc,
     v |-> [i \in 1..a.nr |-> [j \in 1..b.nc |->
              RSum([k \in 1..a.nc |-> RMul(a.v[i][k], b.v[k][j])])]]]

\* the indices a Python slice [-k:] selects among 0..n-1 ([-0:] is [0:])
PyLast(n, k) == IF k = 0 THEN 0..(n - 1) ELSE (IF n - k < 0 THEN 0 ELSE n - k)..(n - 1)

\* the indices a Python slice [:-k] selects among 0..n-1 ([:-0] is [:0])
PyHead(n, k) == IF k = 0 THEN {} ELSE 0..(n - k - 1)

\* np.sum(m[:, cols], axis=1)[i] for a contiguous slice cols
RowSum(m, i, cols) ==
    RSum([j \in 1..m.nc |-> IF (j - 1) \in cols THEN At(m, i, j - 1) ELSE Zero])

(***************************************************************************)
(* The configuration dictionary.                                           *)
(***************************************************************************)
\* a key the dictionary does not hold
Absent == "<absent>"

\* params["cov"] is None
CovNone == [nr |-> -1, nc |-> -1, v |-> <<>>]

\* n_loading of initialize_loadings
NLoading(p) == p.rank * 2 + p.n_inp + p.n_out

\* explicit covariance matrices of size k: the identity with c at (0,1) and
\* (1,0) and d at (0,0); positive definite exactly when d > 0 and d > c*c
CovCandidate(k, c, d) ==
    [nr |-> k, nc |-> k,
     v |-> [i \in 1..k |-> [j \in 1..k |->
              IF i = 1 /\ j = 1 THEN d
              ELSE IF i = j THEN One
              ELSE IF {i, j} = {1, 2} THEN c
              ELSE Zero]]]

ExplicitCovs(k) ==
    {CovCandidate(k, c, One) : c \in {Zero, R(3, 5), One, R(2, 1)}}
        \cup {CovCandidate(k, Zero, d) : d \in {Zero, R(-1, 1)}}
        \cup {Eye(k + 1)}

\* the (w_rec_dist, w_dist) pairs: Gaussian, Gamma, a selector the Gamma test
\* cannot read (the key w_dist is missing), an unrecognised selector
DistPairs ==
    { <<"gauss", Absent>>, <<"gamma", "gamma">>, <<"gamma", Absent>>,
      <<"uniform", "uniform">> }

PInhs == {Zero, R(1, 2), R(3, 4), One}

Flags == [spectr_norm : BOOLEAN, apply_dale : BOOLEAN,
          balance_dale : BOOLEAN, row_balance_dale : BOOLEAN]

\* connection probabilities for which sqrt(p_rec * n_rec) is rational
PRecs(n) == {p \in {R(1, 4), R(1, 2)} : IsSquare(RMul(p, R(n, 1)))}

Config(n, prec, dist, fl, pinh, rank, ninp, nout, cov) ==
    [n_rec |-> n, p_rec |-> prec, w_rec_dist |-> dist[1], w_dist |-> dist[2],
     spectr_rad |-> R(3, 2), spectr_norm |-> fl.spectr_norm,
     apply_dale |-> fl.apply_dale, p_inh |-> pinh,
     balance_dale |-> fl.balance_dale, row_balance_dale |-> fl.row_balance_dale,
     n_inp |-> ninp, p_inp |-> R(1, 4), n_out |-> nout, rank |-> rank, cov |-> cov]

\* configurations that vary what initialize_w_rec reads
RecConfigs ==
    UNION { { Config(n, prec, dist, fl, pinh, 1, 1, 1, CovNone) :
                prec \in PRecs(n), dist \in DistPairs, fl \in Flags, pinh \in PInhs } :
            n \in NRecs }

\* configurations that vary what initialize_loadings and initialize_w_inp read
LoadConfigs ==
    UNION { { Config(1, prec, <<"gauss", Absent>>,
                     [spectr_norm |-> TRUE, apply_dale |-> TRUE,
                      balance_dale |-> TRUE, row_balance_dale |-> TRUE],
                     R(1, 2), rank, ninp, nout, cov) :
                prec \in PRecs(1),
                cov \in {CovNone} \cup ExplicitCovs(rank * 2 + ninp + nout) } :
            rank \in 0..MaxRank, ninp \in 0..MaxNInp, nout \in 0..MaxNOut }

Configs == RecConfigs \cup LoadConfigs

(***************************************************************************)
(* Random draws.                                                           *)
(***************************************************************************)
\* values of np.random.normal(0, 1) and np.random.randn
NormalDraws == {R(-1, 1), R(2, 1)}

\* values of np.random.gamma(2, 0.5): positive
GammaDraws == {R(1, 1), R(2, 1)}

\* the index pairs of an nr x nc array
Positions(nr, nc) == (0..(nr - 1)) \X (0..(nc - 1))

(***************************************************************************)
(* State.                                                                  *)
(*   params      the configuration dictionary, shared by all calls         *)
(*   params0     the configuration as the caller built it (history)        *)
(*   fn, pc      the routine that is running and its position              *)
(*   rec_idx, w_rec, dale_mask, n_inh, EIratio, bpow                       *)
(*               locals of initialize_w_rec (the weights are b^bpow*w_rec) *)
(*   cov, chol_cov, return_loadings                                        *)
(*               locals and argument of initialize_loadings                *)
(*   out         the warnings printed by the running call                  *)
(*   spectral_rad  the value printed on line 80                            *)
(*   err         the exception the call raised, "" if none                 *)
(*   ret         the matrices the call returned                            *)
(***************************************************************************)
VARIABLES params, params0, fn, pc, rec_idx, w_rec, dale_mask, n_inh, EIratio,
          bpow, cov, chol_cov, return_loadings, out, spectral_rad, err, ret

vars == <<params, params0, fn, pc, rec_idx, w_rec, dale_mask, n_inh, EIratio,
          bpow, cov, chol_cov, return_loadings, out, spectral_rad, err, ret>>

recLocals == <<rec_idx, w_rec, dale_mask, n_inh, EIratio, bpow, spectral_rad>>

loadLocals == <<cov, chol_cov, return_loadings>>

\* the locals before a call
FreshLocals ==
    /\ rec_idx = {}
    /\ w_rec = NoMat
    /\ dale_mask = NoMat
    /\ n_inh = 0
    /\ EIratio = Zero
    /\ bpow = 0
    /\ cov = NoMat
    /\ chol_cov = NoMat
    /\ return_loadings = TRUE
    /\ out = {}
    /\ spectral_rad = Zero
    /\ err = ""
    /\ ret = <<>>

Init ==
    /\ params \in Configs
    /\ params0 = params
    /\ fn = "none"
    /\ pc = "idle"
    /\ FreshLocals

(***************************************************************************)
(* initialize_w_rec: the computations of its steps.                        *)
(***************************************************************************)
\* np.linalg.eigvals: the matrix has closed-form rational eigenvalue moduli
Trace2(m) == RAdd(At(m, 0, 0), At(m, 1, 1))

Det2(m) == RSub(RMul(At(m, 0, 0), At(m, 1, 1)), RMul(At(m, 0, 1), At(m, 1, 0)))

Disc2(m) == RSub(RMul(Trace2(m), Trace2(m)), RMul(R(4, 1), Det2(m)))

RadiusExact(m) ==
    IF m.nr = 1 THEN TRUE
    ELSE IF Disc2(m).n >= 0 THEN IsSquare(Disc2(m)) ELSE IsSquare(Det2(m))

\* np.max(np.abs(np.linalg.eigvals(m))) of a finite 1x1 or 2x2 matrix:
\* real eigenvalues (t +- sqrt(disc)) / 2, or a conjugate pair of modulus
\* sqrt(det)
SpectralRadius(m) ==
    IF m.nr = 1 THEN RAbs(At(m, 0, 0))
    ELSE IF Disc2(m).n >= 0
         THEN RDiv(RAdd(RAbs(Trace2(m)), RSqrt(Disc2(m))), R(2, 1))
         ELSE RSqrt(Det2(m))

\* lines 23, 29, 42: the branch the distribution selector takes
FillBranch(p) ==
    IF p.w_rec_dist = "gauss" THEN "gauss"
    ELSE IF p.w_dist = Absent THEN "KeyError"
    ELSE IF p.w_dist = "gamma" THEN "gamma"
    ELSE "fallback"

\* lines 24-28 and 45-49: z * spectr_rad / sqrt(p_rec * n_rec) at the sampled
\* positions of the zero matrix
GaussFill(p, idx, z) ==
    [nr |-> p.n_rec, nc |-> p.n_rec,
     v |-> [i \in 1..p.n_rec |-> [j \in 1..p.n_rec |->
              IF <<i - 1, j - 1>> \in idx
              THEN RDiv(RMul(z[<<i - 1, j - 1>>], p.spectr_rad),
                        RSqrt(RMul(p.p_rec, R(p.n_rec, 1))))
              ELSE Zero]]]

\* line 30: the Gamma draws at the sampled positions
GammaFill(p, idx, z) ==
    [nr |-> p.n_rec, nc |-> p.n_rec,
     v |-> [i \in 1..p.n_rec |-> [j \in 1..p.n_rec |->
              IF <<i - 1, j - 1>> \in idx THEN z[<<i - 1, j - 1>>] ELSE Zero]]]

\* a variant that also resets the target radius
SpectrNormOverride_ResetsRadius(p) ==
    IF p.spectr_norm = FALSE THEN [p EXCEPT !.spectr_norm = TRUE, !.spectr_rad = One]
    ELSE p

\* lines 31-35: spectral normalisation is switched on
SpectrNormOverride(p) ==
    IF p.spectr_norm = FALSE THEN [p EXCEPT !.spectr_norm = TRUE] ELSE p

\* lines 36-40: `params["apply_dale"] == True` is a comparison whose value is
\* dropped; the dictionary is not written
ApplyDaleOverride(p) == p

\* the warnings of lines 32, 37 and 43
GammaWarnings(p) ==
    (IF p.spectr_norm = FALSE THEN {"spectr_norm set to TRUE"} ELSE {}) \cup
    (IF p.apply_dale = FALSE THEN {"Dale's law set to TRUE"} ELSE {})

FallbackWarnings == {"initialization not implemented", "continuing with Gauss"}

\* line 54
NInh(p) == IntTrunc(RMul(R(p.n_rec, 1), p.p_inh))

\* line 56: dale_mask[-k:] *= -1
NegateLastRows(m, k) ==
    [m EXCEPT !.v = [i \in 1..m.nr |-> [j \in 1..m.nc |->
        IF (i - 1) \in PyLast(m.nr, k) THEN RNeg(m.v[i][j]) ELSE m.v[i][j]]]]

\* line 61
EIRatioOf(p) == RDiv(RSub(One, p.p_inh), p.p_inh)

\* line 62: w_rec[:, -k:] *= r
ScaleLastCols(m, k, r) ==
    [m EXCEPT !.v = [i \in 1..m.nr |-> [j \in 1..m.nc |->
        IF (j - 1) \in PyLast(m.nc, k) THEN RMul(m.v[i][j], r) ELSE m.v[i][j]]]]

\* lines 66-69: each row's [:-k] columns divided by ex_u / in_u of that row
RowBalance(m, k) ==
    [m EXCEPT !.v = [i \in 1..m.nr |-> [j \in 1..m.nc |->
        IF (j - 1) \in PyHead(m.nc, k)
        THEN RDiv(m.v[i][j],
                  RDiv(RowSum(m, i - 1, PyHead(m.nc, k)),
                       RowSum(m, i - 1, PyLast(m.nc, k))))
        ELSE m.v[i][j]]]]

\* a variant that keeps the signs of the draws
DaleAbs_KeepsSign(m) == m

\* line 57
DaleAbs(m) == MatAbs(m)

\* lines 75-79: spectr_rad * w_rec / max |eigenvalue of dale_mask.dot(w_rec)|
SpectrNormalise(p, mask, w) ==
    MatDivScalar(MatScale(w, p.spectr_rad), SpectralRadius(MatMul(mask, w)))

\* line 53
DaleRuns(p) == p.apply_dale

\* line 60 under line 53: the block of lines 61-71 runs
BalanceRuns(p) == p.apply_dale /\ p.balance_dale

\* line 65 under line 60
RowBalanceRuns(p) == BalanceRuns(p) /\ p.row_balance_dale

\* a variant with lines 70-71 inside the block of line 65
CorrectionRuns_InRowBlock(p) == RowBalanceRuns(p)

\* lines 70-71 lie inside the block of line 60
CorrectionRuns(p) == BalanceRuns(p)

\* the weights and the mask on reaching line 74, from the filled matrix
\* (b, a positive scalar, left out)
MaskAtNorm(p) ==
    IF DaleRuns(p) THEN NegateLastRows(Eye(p.n_rec), NInh(p)) ELSE Eye(p.n_rec)

WeightsAtNorm(p, w) ==
    LET wd == IF DaleRuns(p) THEN DaleAbs(w) ELSE w
        wb == IF BalanceRuns(p) THEN ScaleLastCols(wd, NInh(p), EIRatioOf(p)) ELSE wd
    IN  IF RowBalanceRuns(p) THEN RowBalance(wb, NInh(p)) ELSE wb

\* the draws for which the model computes line 78 and line 80 exactly
Representable(p, w) ==
    MatFinite(WeightsAtNorm(p, w)) =>
        RadiusExact(MatMul(MaskAtNorm(p), WeightsAtNorm(p, w)))

(***************************************************************************)
(* initialize_w_rec: its steps.                                            *)
(***************************************************************************)
\* an exception leaves the routine; the dictionary keeps what was written
Raise(e) ==
    /\ pc' = "raised"
    /\ err' = e

\* lines 16-20: the zero matrix, the identity mask, the sampled positions
InitializeWRec_Sample ==
    /\ pc = "idle"
    /\ fn' = "w_rec"
    /\ pc' = "fill"
    /\ w_rec' = Zeros(params.n_rec, params.n_rec)
    /\ dale_mask' = Eye(params.n_rec)
    /\ rec_idx' \in SUBSET Positions(params.n_rec, params.n_rec)
    /\ UNCHANGED <<params, params0, n_inh, EIratio, bpow, spectral_rad,
                   loadLocals, out, err, ret>>

\* lines 23-49
InitializeWRec_Fill ==
    /\ pc = "fill"
    /\ IF FillBranch(params) = "KeyError"
       THEN /\ Raise("KeyError")
            /\ UNCHANGED <<params, w_rec, out>>
       ELSE /\ \E z \in [rec_idx -> IF FillBranch(params) = "gamma"
                                    THEN GammaDraws ELSE NormalDraws] :
                 /\ w_rec' = IF FillBranch(params) = "gamma"
                             THEN GammaFill(params, rec_idx, z)
                             ELSE GaussFill(params, rec_idx, z)
                 /\ params' = IF FillBranch(params) = "gamma"
                              THEN ApplyDaleOverride(SpectrNormOverride(params))
                              ELSE params
                 /\ Representable(params', w_rec')
            /\ out' = IF FillBranch(params) = "gamma" THEN GammaWarnings(params)
                      ELSE IF FillBranch(params) = "fallback" THEN FallbackWarnings
                      ELSE {}
            /\ pc' = "dale"
            /\ UNCHANGED err
    /\ UNCHANGED <<params0, fn, rec_idx, dale_mask, n_inh, EIratio, bpow,
                   spectral_rad, loadLocals, ret>>

\* lines 53-57
InitializeWRec_Dale ==
    /\ pc = "dale"
    /\ IF DaleRuns(params)
       THEN /\ n_inh' = NInh(params)
            /\ dale_mask' = NegateLastRows(dale_mask, n_inh')
            /\ w_rec' = DaleAbs(w_rec)
       ELSE UNCHANGED <<n_inh, dale_mask, w_rec>>
    /\ pc' = "balance"
    /\ UNCHANGED <<params, params0, fn, rec_idx, EIratio, bpow, spectral_rad,
                   loadLocals, out, err, ret>>

\* lines 60-62; (1 - p_inh) / p_inh on Python floats raises for p_inh = 0
\* (on numpy floats it is inf, the weights become inf or nan and line 78 or 80
\* raises instead: the call fails either way)
InitializeWRec_Balance ==
    /\ pc = "balance"
    /\ IF BalanceRuns(params)
       THEN IF params.p_inh = Zero
            THEN /\ Raise("ZeroDivisionError")
                 /\ UNCHANGED <<EIratio, w_rec>>
            ELSE /\ EIratio' = EIRatioOf(params)
                 /\ w_rec' = ScaleLastCols(w_rec, n_inh, EIratio')
                 /\ pc' = "rowbalance"
                 /\ UNCHANGED err
       ELSE /\ pc' = "rowbalance"
            /\ UNCHANGED <<EIratio, w_rec, err>>
    /\ UNCHANGED <<params, params0, fn, rec_idx, dale_mask, n_inh, bpow,
                   spectral_rad, loadLocals, out, ret>>

\* lines 65-69
InitializeWRec_RowBalance ==
    /\ pc = "rowbalance"
    /\ w_rec' = IF RowBalanceRuns(params) THEN RowBalance(w_rec, n_inh) ELSE w_rec
    /\ pc' = "correct"
    /\ UNCHANGED <<params, params0, fn, rec_idx, dale_mask, n_inh, EIratio, bpow,
                   spectral_rad, loadLocals, out, err, ret>>

\* line 71: w_rec *= b, one more factor b on every entry
TimesB(k) == k + 1

\* lines 70-71; the division by EIratio on Python floats raises for EIratio = 0
InitializeWRec_Correct ==
    /\ pc = "correct"
    /\ IF CorrectionRuns(params)
       THEN IF EIratio = Zero
            THEN /\ Raise("ZeroDivisionError")
                 /\ UNCHANGED bpow
            ELSE /\ bpow' = TimesB(bpow)
                 /\ pc' = "norm"
                 /\ UNCHANGED err
       ELSE /\ pc' = "norm"
            /\ UNCHANGED <<bpow, err>>
    /\ UNCHANGED <<params, params0, fn, rec_idx, w_rec, dale_mask, n_inh, EIratio,
                   spectral_rad, loadLocals, out, ret>>

\* lines 74-79; np.linalg.eigvals raises LinAlgError on an array holding inf or
\* nan; the division by a zero radius gives inf and nan with no error; the
\* common factor b^bpow of numerator and eigenvalues cancels
InitializeWRec_SpectrNorm ==
    /\ pc = "norm"
    /\ IF params.spectr_norm
       THEN IF ~MatFinite(w_rec)
            THEN /\ Raise("LinAlgError")
                 /\ UNCHANGED <<w_rec, bpow>>
            ELSE /\ w_rec' = SpectrNormalise(params, dale_mask, w_rec)
                 /\ bpow' = 0
                 /\ pc' = "report"
                 /\ UNCHANGED err
       ELSE /\ pc' = "report"
            /\ UNCHANGED <<w_rec, bpow, err>>
    /\ UNCHANGED <<params, params0, fn, rec_idx, dale_mask, n_inh, EIratio,
                   spectral_rad, loadLocals, out, ret>>

\* lines 80-81: the printed radius (of w_rec, to be scaled by b^bpow), the return
InitializeWRec_Report ==
    /\ pc = "report"
    /\ IF ~MatFinite(w_rec)
       THEN /\ Raise("LinAlgError")
            /\ UNCHANGED <<spectral_rad, ret>>
       ELSE /\ spectral_rad' = SpectralRadius(MatMul(dale_mask, w_rec))
            /\ ret' = <<w_rec, dale_mask>>
            /\ pc' = "returned"
            /\ UNCHANGED err
    /\ UNCHANGED <<params, params0, fn, rec_idx, w_rec, dale_mask, n_inh, EIratio,
                   bpow, loadLocals, out>>

(***************************************************************************)
(* initialize_w_inp.                                                       *)
(***************************************************************************)
\* lines 95-99: z * sqrt(1 / p_inp) at the sampled positions of the zero matrix
WTask(p, idx, z) ==
    [nr |-> p.n_rec, nc |-> p.n_inp,
     v |-> [i \in 1..p.n_rec |-> [j \in 1..p.n_inp |->
              IF <<i - 1, j - 1>> \in idx
              THEN RMul(z[<<i - 1, j - 1>>], RSqrt(RDiv(One, p.p_inp)))
              ELSE Zero]]]

\* lines 95-101
InitializeWInp ==
    /\ pc = "idle"
    /\ fn' = "w_inp"
    /\ \E idx \in SUBSET Positions(params.n_rec, params.n_inp) :
         \E z \in [idx -> NormalDraws] :
            ret' = <<Transpose(WTask(params, idx, z))>>
    /\ pc' = "returned"
    /\ UNCHANGED <<params, params0, recLocals, loadLocals, out, err>>

(***************************************************************************)
(* initialize_loadings.                                                    *)
(***************************************************************************)
\* the correlation of lines 123-124
Corr == R(3, 5)

\* m[i, j] = x
SetAt(m, i, j, x) == [m EXCEPT !.v[i + 1][j + 1] = x]

\* a variant of the loop that writes only the entry above the diagonal
RECURSIVE CovLoop_OneSided(_, _, _)
CovLoop_OneSided(p, c, i) ==
    IF i >= p.rank THEN c
    ELSE CovLoop_OneSided(p, SetAt(c, p.n_inp + i, p.n_inp + p.rank + i, Corr), i + 1)

\* lines 122-124: the loop over i = i0 .. rank-1
RECURSIVE CovLoop(_, _, _)
CovLoop(p, c, i) ==
    IF i >= p.rank THEN c
    ELSE CovLoop(p,
                 SetAt(SetAt(c, p.n_inp + i, p.n_inp + p.rank + i, Corr),
                       p.n_inp + p.rank + i, p.n_inp + i, Corr),
                 i + 1)

\* lines 118-127
AssembleCov(p) ==
    IF p.cov = CovNone THEN CovLoop(p, Eye(NLoading(p)), 0) ELSE p.cov

\* sum over t < j of l[i][t] * l[j][t] (0-based)
CholDot(l, i, j) == RSum([t \in 1..j |-> RMul(At(l, i, t - 1), At(l, j, t - 1))])

\* a variant that accepts every finite pivot
PivotOK_AnyFinite(s) == IsFinite(s)

\* the pivot of column j is accepted: LAPACK's potrf stops at a pivot <= 0
PivotOK(s) == IsFinite(s) /\ s.n > 0

\* np.linalg.cholesky(a) from column j on: the lower-triangular factor, or
\* ok = FALSE (LinAlgError) at the first pivot that is not positive
RECURSIVE CholFrom(_, _, _)
CholFrom(a, l, j) ==
    IF j >= a.nr THEN [ok |-> TRUE, l |-> l]
    ELSE LET s == RSub(At(a, j, j), CholDot(l, j, j))
         IN  IF ~PivotOK(s) THEN [ok |-> FALSE, l |-> l]
             ELSE CholFrom(a,
                    [l EXCEPT !.v = Stored([i \in 1..l.nr |-> Stored([k \in 1..l.nc |->
                        IF k - 1 = j /\ i - 1 = j THEN RSqrt(s)
                        ELSE IF k - 1 = j /\ i - 1 > j
                             THEN RDiv(RSub(At(a, i - 1, j), CholDot(l, i - 1, j)),
                                       RSqrt(s))
                             ELSE l.v[i][k]])])],
                    j + 1)

Cholesky(a) == CholFrom(a, Zeros(a.nr, a.nc), 0)

\* values of np.random.randn(nr, nc)
NoiseMats(nr, nc) ==
    { [nr |-> nr, nc |-> nc,
       v |-> [i \in 1..nr |-> [j \in 1..nc |-> IF (i + j) % 2 = 0 THEN a ELSE b]]] :
      a \in NormalDraws, b \in NormalDraws }

\* lines 116-136; chol_cov @ randn(n_loading, n_rec) raises ValueError when the
\* factor of an explicit covariance has not n_loading columns
InitializeLoadings ==
    /\ pc = "idle"
    /\ fn' = "loadings"
    /\ return_loadings' \in BOOLEAN
    /\ cov' = AssembleCov(params)
    /\ IF ~Cholesky(cov').ok
       THEN /\ Raise("LinAlgError")
            /\ UNCHANGED <<chol_cov, ret>>
       ELSE /\ chol_cov' = Cholesky(cov').l
            /\ IF return_loadings'
               THEN IF chol_cov'.nc # NLoading(params)
                    THEN /\ Raise("ValueError")
                         /\ UNCHANGED ret
                    ELSE /\ \E z \in NoiseMats(NLoading(params), params.n_rec) :
                               ret' = <<MatMul(chol_cov', z)>>
                         /\ pc' = "returned"
                         /\ UNCHANGED err
               ELSE /\ ret' = <<chol_cov'>>
                    /\ pc' = "returned"
                    /\ UNCHANGED err
    /\ UNCHANGED <<params, params0, recLocals, out>>

(***************************************************************************)
(* The caller: a call that returned or raised is over, the next one may    *)
(* start on the same dictionary.                                           *)
(***************************************************************************)
Finish ==
    /\ pc \in {"returned", "raised"}
    /\ pc' = "idle"
    /\ fn' = "none"
    /\ rec_idx' = {}
    /\ w_rec' = NoMat
    /\ dale_mask' = NoMat
    /\ n_inh' = 0
    /\ EIratio' = Zero
    /\ bpow' = 0
    /\ cov' = NoMat
    /\ chol_cov' = NoMat
    /\ return_loadings' = TRUE
    /\ out' = {}
    /\ spectral_rad' = Zero
    /\ err' = ""
    /\ ret' = <<>>
    /\ UNCHANGED <<params, params0>>

Next ==
    \/ InitializeWRec_Sample
    \/ InitializeWRec_Fill
    \/ InitializeWRec_Dale
    \/ InitializeWRec_Balance
    \/ InitializeWRec_RowBalance
    \/ InitializeWRec_Correct
    \/ InitializeWRec_SpectrNorm
    \/ InitializeWRec_Report
    \/ InitializeWInp
    \/ InitializeLoadings
    \/ Finish

Spec == Init /\ [][Next]_vars

(***************************************************************************)
(* Properties.                                                             *)
(***************************************************************************)
WRecReturned == fn = "w_rec" /\ pc = "returned"

\* round(x) of Python 3: to the nearest integer, ties to the even one
PyRound(x) ==
    LET f == (2 * x.n + x.d) \div (2 * x.d)   \* floor(x + 1/2)
    IN  IF (2 * x.n + x.d) % (2 * x.d) = 0 /\ f % 2 = 1 THEN f - 1 ELSE f

\* the weights and the mask initialize_w_rec returned
RetWeights == ret[1]
RetMask == ret[2]

\* C1: with apply_dale = true the returned mask is diagonal, its last
\* round(n_rec * p_inh) rows equal to -1 and all other rows equal to +1,
\* also when n_rec * p_inh is no integer and when that count is 0.
C1_MaskHasRoundedInhibitoryRows ==
    (WRecReturned /\ params.apply_dale) =>
        \A i \in Rows(RetMask) : \A j \in Cols(RetMask) :
            At(RetMask, i, j) =
                IF i # j THEN Zero
                ELSE IF i >= params.n_rec
                              - PyRound(RMul(R(params.n_rec, 1), params.p_inh))
                     THEN RNeg(One)
                     ELSE One

\* C2: with apply_dale = true every entry of the returned weight matrix
\* (b^bpow * w_rec with b > 0) is non-negative, whatever balance_dale,
\* row_balance_dale, spectr_norm and the sample are.
C2_ReturnedWeightsNonNegative ==
    (WRecReturned /\ params.apply_dale) =>
        /\ bpow >= 0
        /\ \A i \in Rows(RetWeights) : \A j \in Cols(RetWeights) :
              RNonNeg(At(RetWeights, i, j))

\* a returned, row-balanced matrix one row of which had no inhibitory input
\* (its excitatory entries were divided by inf) beside a positive entry
C2_Witness ==
    /\ WRecReturned
    /\ params.apply_dale /\ params.balance_dale /\ params.row_balance_dale
    /\ n_inh = 1
    /\ \E i \in Rows(RetWeights) : \A j \in Cols(RetWeights) :
          At(RetWeights, i, j) = Zero
    /\ \E i \in Rows(RetWeights) : \E j \in Cols(RetWeights) :
          At(RetWeights, i, j).n > 0

\* C3: whenever spectral normalisation is in effect, after line 79 the
\* spectral radius of dale_mask . w_rec equals spectr_rad, for every sample,
\* one of spectral radius 0 included.
C3_NormalisedRadiusIsTarget ==
    (fn = "w_rec" /\ pc \in {"report", "returned"} /\ params.spectr_norm) =>
        /\ MatFinite(w_rec)
        /\ SpectralRadius(MatMul(dale_mask, w_rec)) = params.spectr_rad

\* C4: with a selector that is neither "gauss" nor a recognised Gamma
\* selection (w_dist missing or not "gamma") the call raises nothing, warns and
\* fills the sampled entries by the Gaussian formula.
C4_UnrecognisedSelectorFallsBack ==
    (fn = "w_rec" /\ pc \notin {"idle", "fill"}
        /\ params.w_rec_dist # "gauss" /\ params.w_dist # "gamma") =>
        /\ err = ""
        /\ FallbackWarnings \subseteq out
        /\ pc = "dale" =>
              \A q \in rec_idx : \E z \in NormalDraws :
                  At(w_rec, q[1], q[2]) =
                      RDiv(RMul(z, params.spectr_rad),
                           RSqrt(RMul(params.p_rec, R(params.n_rec, 1))))

\* C5: once the Gamma branch has warned that it sets Dale's law to TRUE,
\* params["apply_dale"] is true and the Dale step runs in that call.
C5_GammaSwitchesDaleOn ==
    ("Dale's law set to TRUE" \in out) =>
        /\ params.apply_dale
        /\ WRecReturned => At(RetMask, params.n_rec - 1, params.n_rec - 1) = RNeg(One)

\* every field but spectr_norm and apply_dale has the value the caller gave it
C6_OtherFieldsKept ==
    [params EXCEPT !.spectr_norm = params0.spectr_norm,
                   !.apply_dale = params0.apply_dale] = params0

\* a step keeps a flag that is true, and writes the dictionary only in the
\* Gamma branch of initialize_w_rec
C6_FlagStep ==
    /\ params.spectr_norm => params'.spectr_norm
    /\ params.apply_dale => params'.apply_dale
    /\ params' # params =>
          (fn = "w_rec" /\ pc = "fill" /\ FillBranch(params) = "gamma")

\* C6: after any sequence of calls of the three routines on one dictionary,
\* every field but spectr_norm and apply_dale keeps its initial value; these
\* two flags never go from true to false, and the dictionary is written only
\* inside a Gamma-branch call (lines 29-40) of initialize_w_rec, so never by
\* initialize_w_inp or initialize_loadings.
C6_ConfigurationFrame == []C6_OtherFieldsKept /\ [][C6_FlagStep]_vars

\* a call of initialize_loadings that returned on a dictionary the Gamma
\* branch of an earlier call has written
C6_Witness ==
    /\ params # params0
    /\ fn = "loadings"
    /\ pc = "returned"

LoadingsCalled == fn = "loadings"

\* the positions (n_inp+i, n_inp+rank+i) and (n_inp+rank+i, n_inp+i), i < rank
CorrPositions(p) ==
    UNION { { <<p.n_inp + i, p.n_inp + p.rank + i>>,
              <<p.n_inp + p.rank + i, p.n_inp + i>> } : i \in 0..(p.rank - 1) }

LowerTriangular(m) ==
    \A i \in Rows(m) : \A j \in Cols(m) : j > i => At(m, i, j) = Zero

\* C7: with cov None and k = 2*rank + n_inp + n_out, the covariance is the
\* k x k symmetric matrix with 1 on the diagonal, 0.6 at exactly the 2*rank
\* positions (n_inp+i, n_inp+rank+i), (n_inp+rank+i, n_inp+i), all of them
\* inside the matrix, and 0 elsewhere; the call returns a k x n_rec matrix
\* when return_loadings is true and the k x k lower-triangular Cholesky factor
\* of that covariance when it is false.
C7_DefaultCovarianceAndResult ==
    (LoadingsCalled /\ params.cov = CovNone) =>
        LET k == 2 * params.rank + params.n_inp + params.n_out
        IN  /\ cov.nr = k /\ cov.nc = k
            /\ CorrPositions(params) \subseteq Positions(k, k)
            /\ Cardinality(CorrPositions(params)) = 2 * params.rank
            /\ \A i \in 0..(k - 1) : \A j \in 0..(k - 1) :
                  /\ At(cov, i, j) = IF i = j THEN One
                                     ELSE IF <<i, j>> \in CorrPositions(params)
                                          THEN R(6, 10)
                                          ELSE Zero
                  /\ At(cov, i, j) = At(cov, j, i)
            /\ pc = "returned"
            /\ Len(ret) = 1
            /\ return_loadings => (ret[1].nr = k /\ ret[1].nc = params.n_rec)
            /\ ~return_loadings =>
                  /\ ret[1].nr = k /\ ret[1].nc = k
                  /\ LowerTriangular(ret[1])
                  /\ MatMul(ret[1], Transpose(ret[1])) = cov

\* the factor of the default covariance of the largest rank was returned
C7_Witness ==
    /\ LoadingsCalled
    /\ params.cov = CovNone
    /\ params.rank = MaxRank /\ params.n_inp = MaxNInp
    /\ ~return_loadings
    /\ pc = "returned"
    /\ At(ret[1], params.n_inp + params.rank, params.n_inp) = R(6, 10)

\* positive definiteness of a symmetric matrix that is diagonal outside its
\* leading 2 x 2 block, by that block's leading minors and the other
\* diagonal entries
BlockPosDef(a) ==
    /\ \A i \in Rows(a) : At(a, i, i).n > 0
    /\ a.nr >= 2 =>
          RLess(RMul(At(a, 0, 1), At(a, 1, 0)), RMul(At(a, 0, 0), At(a, 1, 1)))

\* C8: with an explicit cov that is not positive definite, initialize_loadings
\* raises the numerical error of the factorisation and returns nothing, for
\* return_loadings true and false alike, and leaves the dictionary as it was.
C8_NonPositiveDefiniteCovFails ==
    (LoadingsCalled /\ params.cov # CovNone /\ ~BlockPosDef(params.cov)) =>
        /\ pc = "raised"
        /\ err = "LinAlgError"
        /\ ret = <<>>
        /\ params = params0

\* the singular covariance with correlation 1 was refused when only the
\* factor was asked for
C8_Witness ==
    /\ LoadingsCalled
    /\ ~return_loadings
    /\ params.cov # CovNone
    /\ params.cov.nr >= 2
    /\ At(params.cov, 0, 1) = One
    /\ pc = "raised"

\* C9 as stated: whenever Dale's law is requested, every entry has been
\* multiplied by b on reaching the spectral normalisation, for both values of
\* balance_dale.
C9_CorrectionWheneverDale ==
    (fn = "w_rec" /\ pc = "norm" /\ params.apply_dale) => bpow = 1

\* C9 as amended: the factor b is applied exactly when apply_dale and
\* balance_dale are both true, once, after the balancing steps and before the
\* spectral normalisation; with balance_dale = false no factor is applied.
C9_CorrectionOnlyWhenBalanced ==
    fn = "w_rec" =>
        /\ pc \in {"fill", "dale", "balance", "rowbalance", "correct"} => bpow = 0
        /\ pc = "norm" =>
              bpow = IF params.apply_dale /\ params.balance_dale THEN 1 ELSE 0

\* the factor was applied to a matrix balanced by columns only
C9_Witness ==
    /\ fn = "w_rec"
    /\ pc = "norm"
    /\ params.apply_dale /\ params.balance_dale /\ ~params.row_balance_dale
    /\ bpow = 1
    /\ \E i \in Rows(w_rec) : \E j \in Cols(w_rec) : At(w_rec, i, j).n > 0

\* C10: with apply_dale, balance_dale and row_balance_dale all true, each row
\* of the returned weights has equal sums over the excitatory columns and over
\* the inhibitory columns (the last n_inh ones), also for n_inh = 0.
C10_RowsBalanced ==
    (WRecReturned /\ params.apply_dale /\ params.balance_dale
        /\ params.row_balance_dale) =>
        \A i \in Rows(RetWeights) :
            RowSum(RetWeights, i, 0..(params.n_rec - n_inh - 1)) =
                RowSum(RetWeights, i, (params.n_rec - n_inh)..(params.n_rec - 1))

=============================================================================
